---- MODULE Spec2Model ----
(***************************************************************************)
(* The HTTP relay of src/app.py: the /send dispatcher, the three analytics *)
(* endpoints and the five endpoints built on make_request.                 *)
(*                                                                         *)
(* Text (Python str) is a sequence of one-character strings, so that       *)
(* str.split(',') is computed and not assumed; "" is << >>.  A dict is a   *)
(* function whose domain is the set of keys present.  A handler's          *)
(* position is pc[h]: "idle" between requests, "loop" at the head of the   *)
(* for loop of send_message, "post" / "get" while the blocking outbound    *)
(* call is in flight, "done" once the response is computed.  request[h]    *)
(* keeps the body as the caller sent it; outbound[h] and upstream[h] log   *)
(* the calls issued for the request and what came back for each.           *)
(***************************************************************************)
EXTENDS Naturals, Sequences, FiniteSets, TLC

VARIABLES pc, request, template_variables, variable_names, i,
          outbound, upstream, response

vars == <<pc, request, template_variables, variable_names, i,
          outbound, upstream, response>>

\* ---------------------------------------------------------------- bounds

\* Longest recipients list (and highest caller-supplied user<n> key).
MaxRecipients == 2

\* ------------------------------------------------------ python primitives

EmptyDict == << >>

\* dict.get(k, default)
Get(d, k, default) == IF k \in DOMAIN d THEN d[k] ELSE default

\* d[k] = v
Put(d, k, v) == [x \in (DOMAIN d) \cup {k} |-> IF x = k THEN v ELSE d[x]]

\* `not x` for the values a request field takes here: absent, "" or [].
Falsy(d, k) == k \notin DOMAIN d \/ d[k] = << >>

\* str.split(','): "" gives [""], "X,Y" gives ["X", "Y"], "," gives ["", ""].
RECURSIVE Split(_)
Split(s) ==
  IF s = << >> THEN << << >> >>
  ELSE IF Head(s) = "," THEN << << >> >> \o Split(Tail(s))
  ELSE LET r == Split(Tail(s)) IN << <<Head(s)>> \o Head(r) >> \o Tail(r)

\* Sequences over S of length 0..n.
SeqsUpTo(S, n) == UNION {[1..k -> S] : k \in 0..n}

\* ------------------------------------------------------- upstream provider

WHATSAPP_API_URL == "https://graph.facebook.com/v17.0/139913512540275/messages"

Statuses == {200, 201, 500}

JsonText == "{\"data\":[]}"
HtmlText == "<html>not json</html>"

\* What one outbound call can come back with: a response (status, body that
\* is or is not JSON), or an exception raised by the HTTP client.
ConnectionError ==
  [raised |-> TRUE, status |-> 0, is_json |-> FALSE, text |-> "ConnectionError"]

UpstreamResponses ==
  {[raised |-> FALSE, status |-> s, is_json |-> j,
    text |-> IF j THEN JsonText ELSE HtmlText] : s \in Statuses, j \in BOOLEAN}

UpstreamOutcomes == UpstreamResponses \cup {ConnectionError}

\* requests.Response.ok: no 4xx or 5xx status.
Ok(r) == r.status < 400

\* ------------------------------------------------------ inbound responses

Response(status, kind, text, data) ==
  [status |-> status, kind |-> kind, text |-> text, data |-> data]

NoResponse == Response(0, "none", "", "")

\* Flask's answer to an exception that leaves the view function.
InternalServerError(exc) == Response(500, "exception", exc, "")

\* --------------------------------------------------------------- /send

Recipients == {"a", "b"}

TemplateNames == {<< >>, <<"T">>}

Var1Values == {<< >>, <<"X">>, <<"X", ",", "Y">>, <<",", "Y">>,
               <<"X", ",", "Y", ",", "Z">>}

\* f'user{i+1}' for 0-based i
UserKeyTypo(j) == "variable" \o ToString(j + 1)

UserKey(j) == "user" \o ToString(j + 1)

TVKeys == {"variable1", "variable2", "variable3"}
            \cup {UserKey(j) : j \in 0..(MaxRecipients - 1)}

TVValues(k) ==
  IF k = "variable1" THEN Var1Values
  ELSE IF k = "variable2" THEN {<<"V", "2">>}
  ELSE IF k = "variable3" THEN {<<"V", "3">>}
  ELSE {<<"U">>}

\* A JSON field that is absent (its v is then never read), or present with a
\* value of S.
Opt(S) == {[p |-> b, v |-> x] : b \in {TRUE}, x \in S}
            \cup {[p |-> FALSE, v |-> CHOOSE x \in S : TRUE]}

\* The JSON object holding the fields of c that are present.
Object(c) == [k \in {x \in DOMAIN c : c[x].p} |-> c[k].v]

\* Every dict over the keys K, each key absent or holding one of its values.
RECURSIVE Dicts(_)
Dicts(K) ==
  IF K = {} THEN {EmptyDict}
  ELSE LET k == CHOOSE x \in K : TRUE
           rest == Dicts(K \ {k})
       IN  rest \cup {Put(d, k, v) : d \in rest, v \in TVValues(k)}

\* Every template_variables map a caller may supply.
TemplateVariableSets == Dicts(TVKeys)

\* Every JSON object a caller may POST to /send.
SendRequests ==
  {Object(c) : c \in [recipients : Opt(SeqsUpTo(Recipients, MaxRecipients)),
                      template_name : Opt(TemplateNames),
                      template_variables : Opt(TemplateVariableSets)]}

\* The handler threads of the server (the domain is fixed by Init).
Handlers == DOMAIN pc

Accepting(h) == pc[h] = "idle"

\* `not recipients or not template_name`
MissingParametersAnd(message_data) ==
  Falsy(message_data, "recipients") /\ Falsy(message_data, "template_name")

MissingParameters(message_data) ==
  Falsy(message_data, "recipients") \/ Falsy(message_data, "template_name")

\* template_variables.get('variable1', '').split(',')
VariableNames(tv) == Split(Get(tv, "variable1", << >>))

\* template_variables[key] = value, on the dict of the request h is handling.
SetItemShared(tvs, h, key, value) ==
  [g \in DOMAIN tvs |-> Put(tvs[g], key, value)]

SetItem(tvs, h, key, value) == [tvs EXCEPT ![h] = Put(tvs[h], key, value)]

\* The recipient enumerate() yields at 0-based position j.
RecipientFirst(recipients, j) == recipients[1]

Recipient(recipients, j) == recipients[j + 1]

\* The three body parameters of the payload built at 0-based position j.
Parameters(tv, j) ==
  << Get(tv, UserKey(j), << >>),
     Get(tv, "variable2", << >>),
     Get(tv, "variable3", << >>) >>

Payload(recipient, template_name, tv, j) ==
  [messaging_product |-> "whatsapp",
   recipient_type |-> "individual",
   to |-> recipient,
   type |-> "template",
   name |-> template_name,
   language |-> "en_US",
   parameters |-> Parameters(tv, j)]

PostCall(payload) == [method |-> "POST", url |-> WHATSAPP_API_URL, json |-> payload]

\* POST /send up to the head of the loop: parse, validate, split variable1.
send_message(h, message_data) ==
  /\ Accepting(h)
  /\ request' = [request EXCEPT ![h] = [endpoint |-> "/send", json |-> message_data]]
  /\ template_variables' =
       [template_variables EXCEPT
          ![h] = Get(message_data, "template_variables", EmptyDict)]
  /\ i' = [i EXCEPT ![h] = 0]
  /\ outbound' = [outbound EXCEPT ![h] = << >>]
  /\ upstream' = [upstream EXCEPT ![h] = << >>]
  /\ IF MissingParameters(message_data)
       THEN /\ response' = [response EXCEPT
                 ![h] = Response(400, "error", "Missing required parameters", "")]
            /\ variable_names' = [variable_names EXCEPT ![h] = << >>]
            /\ pc' = [pc EXCEPT ![h] = "done"]
       ELSE /\ response' = [response EXCEPT ![h] = NoResponse]
            /\ variable_names' = [variable_names EXCEPT
                 ![h] = VariableNames(Get(message_data, "template_variables", EmptyDict))]
            /\ pc' = [pc EXCEPT ![h] = "loop"]

\* One pass of the loop body up to the blocking requests.post: bind
\* user{i+1}, build the payload, issue the call.
send_message_iteration(h) ==
  /\ pc[h] = "loop"
  /\ LET j == i[h]
         recipient == Recipient(request[h].json.recipients, j)
         tvs == IF j < Len(variable_names[h])
                  THEN SetItem(template_variables, h, UserKey(j), variable_names[h][j + 1])
                  ELSE template_variables
     IN  /\ template_variables' = tvs
         /\ outbound' = [outbound EXCEPT
              ![h] = Append(@, PostCall(Payload(recipient,
                                request[h].json.template_name, tvs[h], j)))]
  /\ pc' = [pc EXCEPT ![h] = "post"]
  /\ UNCHANGED <<request, variable_names, i, upstream, response>>

\* requests.post returns or raises; response.json(); the next pass, or the
\* 200 after the last recipient.  Nothing catches an exception here.
send_message_response(h, r) ==
  /\ pc[h] = "post"
  /\ upstream' = [upstream EXCEPT ![h] = Append(@, r)]
  /\ IF r.raised \/ ~r.is_json
       THEN /\ response' = [response EXCEPT
                 ![h] = InternalServerError(IF r.raised THEN r.text ELSE "JSONDecodeError")]
            /\ pc' = [pc EXCEPT ![h] = "done"]
            /\ i' = i
       ELSE /\ i' = [i EXCEPT ![h] = @ + 1]
            /\ IF i[h] + 1 = Len(request[h].json.recipients)
                 THEN /\ response' = [response EXCEPT
                           ![h] = Response(200, "message", "Messages sent successfully!", "")]
                      /\ pc' = [pc EXCEPT ![h] = "done"]
                 ELSE /\ response' = response
                      /\ pc' = [pc EXCEPT ![h] = "loop"]
  /\ UNCHANGED <<request, template_variables, variable_names, outbound>>

\* ------------------------------------------------------------ analytics

GRAPH_ACCOUNT_URL == "https://graph.facebook.com/v18.0/118254494612532"

IsoDate == "2023-12-01T00:00:00"

Dates == {IsoDate, "not-a-date"}

\* datetime.fromisoformat raises ValueError on anything but ISO-8601.
IsIsoFormat(d) == d = IsoDate

\* int(datetime.fromisoformat(d).timestamp()), with the server on UTC.
iso_to_unix(d) == IF d = IsoDate THEN 1701388800 ELSE 0

\* Every JSON object a caller may POST to an analytics endpoint.
AnalyticsRequests ==
  {Object(c) : c \in [start_date : Opt(Dates),
                      end_date : Opt(Dates),
                      granularity : Opt({"DAILY"}),
                      template_ids : Opt({<<"t1">>})]}

AnalyticsEndpoints ==
  {"/conversation_analytics", "/template_analytics", "/messaging_analytics"}

GetCall(url, params) == [method |-> "GET", url |-> url, params |-> params]

\* 'start_date' in data and 'end_date' in data [and 'template_ids' in data]
HasFields(data, required) == \A k \in required : k \in DOMAIN data

DatesRequired ==
  "Start date and end date are required in ISO format in the request body."

DatesAndIdsRequired ==
  "Start date, end date, and template IDs are required in the request body."

\* An analytics view function up to its blocking requests.get.
Analytics(h, endpoint, data, required, message, url, fields) ==
  /\ Accepting(h)
  /\ request' = [request EXCEPT ![h] = [endpoint |-> endpoint, json |-> data]]
  /\ template_variables' = [template_variables EXCEPT ![h] = EmptyDict]
  /\ variable_names' = [variable_names EXCEPT ![h] = << >>]
  /\ i' = [i EXCEPT ![h] = 0]
  /\ upstream' = [upstream EXCEPT ![h] = << >>]
  /\ IF ~HasFields(data, required)
       THEN /\ response' = [response EXCEPT
                 ![h] = Response(400, "error", message, "")]
            /\ outbound' = [outbound EXCEPT ![h] = << >>]
            /\ pc' = [pc EXCEPT ![h] = "done"]
       ELSE IF ~IsIsoFormat(data.start_date) \/ ~IsIsoFormat(data.end_date)
       THEN /\ response' = [response EXCEPT ![h] = InternalServerError("ValueError")]
            /\ outbound' = [outbound EXCEPT ![h] = << >>]
            /\ pc' = [pc EXCEPT ![h] = "done"]
       ELSE /\ response' = [response EXCEPT ![h] = NoResponse]
            /\ outbound' = [outbound EXCEPT
                 ![h] = << GetCall(url, [fields |-> fields,
                                         start |-> iso_to_unix(data.start_date),
                                         end |-> iso_to_unix(data.end_date)]) >>]
            /\ pc' = [pc EXCEPT ![h] = "get"]

get_conversation_analytics(h, data) ==
  Analytics(h, "/conversation_analytics", data, {"start_date", "end_date"},
            DatesRequired, GRAPH_ACCOUNT_URL, "conversation_analytics")

get_template_analyticsNoIds(h, data) ==
  Analytics(h, "/template_analytics", data, {"start_date", "end_date"},
            DatesAndIdsRequired,
            GRAPH_ACCOUNT_URL \o "/template_analytics", "template_analytics")

get_template_analytics(h, data) ==
  Analytics(h, "/template_analytics", data,
            {"start_date", "end_date", "template_ids"}, DatesAndIdsRequired,
            GRAPH_ACCOUNT_URL \o "/template_analytics", "template_analytics")

get_messaging_analytics(h, data) ==
  Analytics(h, "/messaging_analytics", data, {"start_date", "end_date"},
            DatesRequired, GRAPH_ACCOUNT_URL, "analytics")

\* if response.ok: jsonify(response.json())
\* else: jsonify({"error": response.text}), response.status_code
AnalyticsResult(r) ==
  IF Ok(r)
    THEN IF r.is_json THEN Response(200, "json", "", r.text)
         ELSE InternalServerError("JSONDecodeError")
    ELSE Response(r.status, "error", "", r.text)

\* requests.get returns or raises (uncaught) in an analytics view function.
analytics_response(h, r) ==
  /\ pc[h] = "get"
  /\ request[h].endpoint \in AnalyticsEndpoints
  /\ upstream' = [upstream EXCEPT ![h] = Append(@, r)]
  /\ response' = [response EXCEPT
       ![h] = IF r.raised THEN InternalServerError(r.text) ELSE AnalyticsResult(r)]
  /\ pc' = [pc EXCEPT ![h] = "done"]
  /\ UNCHANGED <<request, template_variables, variable_names, i, outbound>>

\* ----------------------------------------------------------- make_request

TEMPLATES_URL == GRAPH_ACCOUNT_URL \o "/message_templates"

PHONE_NUMBER_URL == "https://graph.facebook.com/v18.0/139913512540275"

MakeRequestEndpoints ==
  {"/approved_templates", "/rejected_templates", "/approved_template_contents",
   "/rejected_template_contents", "/phone_number_status"}

\* A view function built on make_request, up to the blocking requests.get.
TemplateQuery(h, endpoint, url, params) ==
  /\ Accepting(h)
  /\ request' = [request EXCEPT ![h] = [endpoint |-> endpoint, json |-> EmptyDict]]
  /\ template_variables' = [template_variables EXCEPT ![h] = EmptyDict]
  /\ variable_names' = [variable_names EXCEPT ![h] = << >>]
  /\ i' = [i EXCEPT ![h] = 0]
  /\ upstream' = [upstream EXCEPT ![h] = << >>]
  /\ response' = [response EXCEPT ![h] = NoResponse]
  /\ outbound' = [outbound EXCEPT ![h] = << GetCall(url, params) >>]
  /\ pc' = [pc EXCEPT ![h] = "get"]

approved_template(h) ==
  TemplateQuery(h, "/approved_templates", TEMPLATES_URL,
                [fields |-> "name,status", status |-> "APPROVED"])

rejected_templates(h) ==
  TemplateQuery(h, "/rejected_templates", TEMPLATES_URL,
                [fields |-> "name,status", status |-> "REJECTED"])

approved_template_contents(h) ==
  TemplateQuery(h, "/approved_template_contents", TEMPLATES_URL,
                [fields |-> "name,status,components", status |-> "APPROVED"])

rejected_template_contents(h) ==
  TemplateQuery(h, "/rejected_template_contents", TEMPLATES_URL,
                [fields |-> "name,status,components", status |-> "REJECTED"])

phone_number_status(h) ==
  TemplateQuery(h, "/phone_number_status", PHONE_NUMBER_URL, EmptyDict)

\* What make_request returns, as the body jsonify() then sends with status
\* 200.  response.json() on a 200 whose body is not JSON raises
\* JSONDecodeError, which is a RequestException (caught) from requests 2.27 on
\* and a plain ValueError (not caught) before: json_error_caught is either.
make_requestOk(r, json_error_caught) ==
  IF r.raised THEN Response(200, "error", "Request Exception: ", r.text)
  ELSE IF Ok(r)
    THEN IF r.is_json THEN Response(200, "json", "", r.text)
         ELSE IF json_error_caught
           THEN Response(200, "error", "Request Exception: ", "JSONDecodeError")
           ELSE InternalServerError("JSONDecodeError")
  ELSE Response(200, "error", "Request failed with status code: ", ToString(r.status))

make_request(r, json_error_caught) ==
  IF r.raised THEN Response(200, "error", "Request Exception: ", r.text)
  ELSE IF r.status = 200
    THEN IF r.is_json THEN Response(200, "json", "", r.text)
         ELSE IF json_error_caught
           THEN Response(200, "error", "Request Exception: ", "JSONDecodeError")
           ELSE InternalServerError("JSONDecodeError")
  ELSE Response(200, "error", "Request failed with status code: ", ToString(r.status))

\* requests.get returns or raises inside make_request; jsonify(result).
make_request_response(h, r, json_error_caught) ==
  /\ pc[h] = "get"
  /\ request[h].endpoint \in MakeRequestEndpoints
  /\ upstream' = [upstream EXCEPT ![h] = Append(@, r)]
  /\ response' = [response EXCEPT ![h] = make_request(r, json_error_caught)]
  /\ pc' = [pc EXCEPT ![h] = "done"]
  /\ UNCHANGED <<request, template_variables, variable_names, i, outbound>>

\* ------------------------------------------------------ /send, run alone

\* The locals of send_message after n passes of its loop for an accepted
\* message_data, when no other request is being served and every call
\* returned normally: the dict and the outbound calls issued.
RECURSIVE SendAlone(_, _)
SendAlone(message_data, n) ==
  IF n = 0
    THEN [template_variables |-> Get(message_data, "template_variables", EmptyDict),
          outbound |-> << >>]
    ELSE LET before == SendAlone(message_data, n - 1)
             names == VariableNames(Get(message_data, "template_variables", EmptyDict))
             j == n - 1
             tv == IF j < Len(names)
                     THEN Put(before.template_variables, UserKey(j), names[j + 1])
                     ELSE before.template_variables
         IN  [template_variables |-> tv,
              outbound |-> Append(before.outbound,
                             PostCall(Payload(message_data.recipients[j + 1],
                                              message_data.template_name, tv, j)))]

\* ------------------------------------------------------------- return

\* The view function returns: the response goes to the caller and the
\* locals of the request are gone.
return_response(h) ==
  /\ pc[h] = "done"
  /\ pc' = [pc EXCEPT ![h] = "idle"]
  /\ request' = [request EXCEPT ![h] = [endpoint |-> "", json |-> EmptyDict]]
  /\ template_variables' = [template_variables EXCEPT ![h] = EmptyDict]
  /\ variable_names' = [variable_names EXCEPT ![h] = << >>]
  /\ i' = [i EXCEPT ![h] = 0]
  /\ outbound' = [outbound EXCEPT ![h] = << >>]
  /\ upstream' = [upstream EXCEPT ![h] = << >>]
  /\ response' = [response EXCEPT ![h] = NoResponse]

\* -------------------------------------------------------- specifications

InitHandlers(H) ==
  /\ pc = [h \in H |-> "idle"]
  /\ request = [h \in H |-> [endpoint |-> "", json |-> EmptyDict]]
  /\ template_variables = [h \in H |-> EmptyDict]
  /\ variable_names = [h \in H |-> << >>]
  /\ i = [h \in H |-> 0]
  /\ outbound = [h \in H |-> << >>]
  /\ upstream = [h \in H |-> << >>]
  /\ response = [h \in H |-> NoResponse]

\* One request at a time, every endpoint, every request body.
Init == InitHandlers({"h1"})

Next ==
  \/ \E h \in Handlers :
       Accepting(h) /\ \E message_data \in SendRequests : send_message(h, message_data)
  \/ \E h \in Handlers : send_message_iteration(h)
  \/ \E h \in Handlers, r \in UpstreamOutcomes : send_message_response(h, r)
  \/ \E h \in Handlers :
       Accepting(h) /\ \E data \in AnalyticsRequests : get_conversation_analytics(h, data)
  \/ \E h \in Handlers :
       Accepting(h) /\ \E data \in AnalyticsRequests : get_template_analytics(h, data)
  \/ \E h \in Handlers :
       Accepting(h) /\ \E data \in AnalyticsRequests : get_messaging_analytics(h, data)
  \/ \E h \in Handlers, r \in UpstreamOutcomes : analytics_response(h, r)
  \/ \E h \in Handlers : approved_template(h)
  \/ \E h \in Handlers : rejected_templates(h)
  \/ \E h \in Handlers : approved_template_contents(h)
  \/ \E h \in Handlers : rejected_template_contents(h)
  \/ \E h \in Handlers : phone_number_status(h)
  \/ \E h \in Handlers, r \in UpstreamOutcomes, c \in BOOLEAN :
       make_request_response(h, r, c)
  \/ \E h \in Handlers : return_response(h)

Spec == Init /\ [][Next]_vars

\* Two /send requests in flight at once (Flask serves each request on a
\* thread of its own), over request bodies that bind different user<n>.
ConcurrentRequests ==
  {[recipients |-> rs, template_name |-> <<"T">>, template_variables |-> tv] :
     rs \in {<<"a">>, <<"a", "b">>, <<"b", "a">>},
     tv \in {[variable1 |-> <<"X">>],
             [variable1 |-> <<"X", ",", "Y">>],
             [variable1 |-> <<"P", ",", "Q">>, variable2 |-> <<"V", "2">>],
             [variable3 |-> <<"V", "3">>, user2 |-> <<"U">>]}}
    \cup {[recipients |-> <<"a", "b">>, template_name |-> <<"T">>]}

InitConcurrent == InitHandlers({"h1", "h2"})

NextConcurrent ==
  \/ \E h \in Handlers :
       Accepting(h) /\ \E message_data \in ConcurrentRequests :
                         send_message(h, message_data)
  \/ \E h \in Handlers : send_message_iteration(h)
  \/ \E h \in Handlers, r \in UpstreamOutcomes : send_message_response(h, r)
  \/ \E h \in Handlers : return_response(h)

SpecConcurrent == InitConcurrent /\ [][NextConcurrent]_vars

\* ------------------------------------------------------------ properties

OnSend(h) == request[h].endpoint = "/send"

\* The /send request h is handling has non-empty recipients and template_name.
SendAccepted(h) ==
  /\ OnSend(h)
  /\ "recipients" \in DOMAIN request[h].json
  /\ request[h].json.recipients # << >>
  /\ "template_name" \in DOMAIN request[h].json
  /\ request[h].json.template_name # << >>

\* The template_variables the caller supplied (none: the empty map).
Supplied(h) ==
  IF "template_variables" \in DOMAIN request[h].json
    THEN request[h].json.template_variables
    ELSE EmptyDict

\* The body parameters of the k-th outbound message of h.
Params(h, k) == outbound[h][k].json.parameters

\* The `to` fields of the outbound calls of h, in the order issued.
ToFields(h) == [k \in 1..Len(outbound[h]) |-> outbound[h][k].json.to]

\* Every call of h answered so far returned normally: the client raised
\* nothing and the body decoded as JSON.
AllNormal(h) ==
  \A k \in 1..Len(upstream[h]) : ~upstream[h][k].raised /\ upstream[h][k].is_json

Non2xx(r) == ~r.raised /\ (r.status < 200 \/ r.status > 299)

\* C1: a POST /send whose body has recipients absent or empty, or
\* template_name absent or empty, is answered 400 with
\* {"error": "Missing required parameters"} and issues no outbound call.
C1_MissingParametersRejected ==
  \A h \in Handlers :
    (/\ OnSend(h)
     /\ \/ "recipients" \notin DOMAIN request[h].json
        \/ request[h].json.recipients = << >>
        \/ "template_name" \notin DOMAIN request[h].json
        \/ request[h].json.template_name = << >>)
    => /\ pc[h] = "done"
       /\ response[h] = Response(400, "error", "Missing required parameters", "")
       /\ outbound[h] = << >>

\* C1's case: recipients are given, template_name is not, and the 400 is out.
C1_Witness ==
  \E h \in Handlers :
    /\ OnSend(h)
    /\ "recipients" \in DOMAIN request[h].json
    /\ Len(request[h].json.recipients) = 2
    /\ "template_name" \notin DOMAIN request[h].json
    /\ response[h].status = 400

\* C2: for an accepted /send whose upstream calls all return normally, the
\* `to` fields of the calls issued are the recipients list, position by
\* position and in order (one call per position, none repeated, none left
\* out), at most one call is in flight, and the 200 is produced only after the
\* call for the last recipient has completed.
C2_OneCallPerRecipientInOrder ==
  \A h \in Handlers :
    (SendAccepted(h) /\ AllNormal(h)) =>
      /\ Len(outbound[h]) <= Len(request[h].json.recipients)
      /\ ToFields(h) = SubSeq(request[h].json.recipients, 1, Len(outbound[h]))
      /\ Len(outbound[h]) = Len(upstream[h]) + (IF pc[h] = "post" THEN 1 ELSE 0)
      /\ (pc[h] = "done") = (Len(upstream[h]) = Len(request[h].json.recipients))
      /\ (pc[h] = "done") = (response[h].status = 200)
      /\ response[h].status = 200 => ToFields(h) = request[h].json.recipients

\* C2's case: a recipient listed twice was sent twice and the 200 is out.
C2_Witness ==
  \E h \in Handlers :
    /\ SendAccepted(h)
    /\ AllNormal(h)
    /\ request[h].json.recipients = <<"a", "a">>
    /\ ToFields(h) = <<"a", "a">>
    /\ response[h].status = 200

\* The names of C3: variable1 split on ',', a missing variable1 giving none.
C3_Names(h) ==
  IF "variable1" \in DOMAIN Supplied(h) THEN Split(Supplied(h).variable1) ELSE << >>

\* C3: for an accepted /send and every recipient at 0-based position j, the
\* first body parameter of that recipient's message is names[j] when
\* j < len(names) and the empty string otherwise, whatever template_variables
\* map the caller supplied (maps holding user1, user2, ... included).
C3_FirstParameterIsName ==
  \A h \in Handlers :
    SendAccepted(h) =>
      \A k \in 1..Len(outbound[h]) :
        Params(h, k)[1] = IF k <= Len(C3_Names(h)) THEN C3_Names(h)[k] ELSE << >>

\* C4: every outbound message of an accepted /send has exactly three body
\* parameters, the second is the caller's variable2 (empty if absent) and the
\* third the caller's variable3 (empty if absent); binding user{i+1} in the
\* loop changes neither.
C4_SecondAndThirdParameters ==
  \A h \in Handlers :
    SendAccepted(h) =>
      \A k \in 1..Len(outbound[h]) :
        /\ Len(Params(h, k)) = 3
        /\ Params(h, k)[2] = Get(Supplied(h), "variable2", << >>)
        /\ Params(h, k)[3] = Get(Supplied(h), "variable3", << >>)

\* C4's case: user2 was bound from variable1 (the caller did not supply it)
\* and the second message went out with the caller's variable2.
C4_Witness ==
  \E h \in Handlers :
    /\ SendAccepted(h)
    /\ Len(outbound[h]) = 2
    /\ UserKey(1) \in DOMAIN template_variables[h]
    /\ UserKey(1) \notin DOMAIN Supplied(h)
    /\ "variable2" \in DOMAIN Supplied(h)
    /\ Params(h, 2)[2] = <<"V", "2">>

\* C5: once the handler of an accepted /send is done, if the provider
\* answered every call issued (no transport error) and answered one or more
\* with a non-2xx status, then every recipient was called and the response is
\* 200 {"message": "Messages sent successfully!"}.
C5_Non2xxNotSurfaced ==
  \A h \in Handlers :
    (/\ SendAccepted(h)
     /\ pc[h] = "done"
     /\ \A k \in 1..Len(upstream[h]) : ~upstream[h][k].raised
     /\ \E k \in 1..Len(upstream[h]) : Non2xx(upstream[h][k]))
    => /\ Len(outbound[h]) = Len(request[h].json.recipients)
       /\ response[h] = Response(200, "message", "Messages sent successfully!", "")

\* C6: an accepted /send always ends with every recipient called and a 200,
\* also when a call fails at transport level or returns a body that is not
\* JSON; the only error status /send returns is 400, for missing parameters.
C6_OnlyError400 ==
  \A h \in Handlers :
    (OnSend(h) /\ pc[h] = "done") =>
      /\ response[h].status \in {200, 400}
      /\ SendAccepted(h) =>
           /\ response[h].status = 200
           /\ Len(outbound[h]) = Len(request[h].json.recipients)

OnAnalytics(h) == request[h].endpoint \in AnalyticsEndpoints

OnMakeRequest(h) == request[h].endpoint \in MakeRequestEndpoints

\* C7: a JSON-object request to an analytics endpoint that lacks start_date
\* or end_date (or, for /template_analytics, template_ids) is answered 400
\* with an error body and issues no outbound call.
C7_AnalyticsMissingFieldsRejected ==
  \A h \in Handlers :
    (/\ OnAnalytics(h)
     /\ \/ "start_date" \notin DOMAIN request[h].json
        \/ "end_date" \notin DOMAIN request[h].json
        \/ /\ request[h].endpoint = "/template_analytics"
           /\ "template_ids" \notin DOMAIN request[h].json)
    => /\ pc[h] = "done"
       /\ response[h].status = 400
       /\ response[h].kind = "error"
       /\ outbound[h] = << >>

\* C7's case: /template_analytics with both dates and no template_ids got 400.
C7_Witness ==
  \E h \in Handlers :
    /\ request[h].endpoint = "/template_analytics"
    /\ {"start_date", "end_date"} \subseteq DOMAIN request[h].json
    /\ "template_ids" \notin DOMAIN request[h].json
    /\ response[h].status = 400

\* C8: on each of the eight pass-through endpoints a valid request issues
\* exactly one outbound call, and when the provider answers it with a non-2xx
\* status the inbound response has that same status.
C8_UpstreamStatusRelayed ==
  \A h \in Handlers :
    ((OnAnalytics(h) \/ OnMakeRequest(h)) /\ pc[h] = "done" /\ upstream[h] # << >>)
    => /\ Len(outbound[h]) = 1
       /\ Len(upstream[h]) = 1
       /\ Non2xx(upstream[h][1]) => response[h].status = upstream[h][1].status

\* C9: on the endpoints built on make_request, an upstream 200 with a JSON
\* body is relayed as that body, unchanged; any other upstream status gives an
\* error envelope that does not hold the upstream body, and a transport
\* exception gives an error envelope.
C9_MakeRequestBody ==
  \A h \in Handlers :
    (OnMakeRequest(h) /\ pc[h] = "done") =>
      LET r == upstream[h][1] IN
        /\ (~r.raised /\ r.status = 200 /\ r.is_json)
             => (response[h].kind = "json" /\ response[h].data = r.text)
        /\ (~r.raised /\ r.status # 200)
             => (response[h].kind = "error" /\ response[h].data # r.text)
        /\ r.raised => response[h].kind = "error"

\* C9's case: /approved_templates answered an upstream 500 with the envelope.
C9_Witness ==
  \E h \in Handlers :
    /\ request[h].endpoint = "/approved_templates"
    /\ pc[h] = "done"
    /\ upstream[h][1].status = 500
    /\ response[h].kind = "error"
    /\ response[h].data = "500"

\* C10: whatever other /send requests are served before or during it, the
\* outbound messages of a /send request (recipient and three parameters) and
\* its template_variables are those the request produces when handled alone:
\* no user{i+1} binding of another request shows in them.
C10_RequestsIsolated ==
  \A h \in Handlers :
    SendAccepted(h) =>
      LET alone == SendAlone(request[h].json, Len(outbound[h])) IN
        /\ Len(outbound[h]) <= Len(request[h].json.recipients)
        /\ outbound[h] = alone.outbound
        /\ template_variables[h] = alone.template_variables
        /\ response[h].status = 200
             => Len(outbound[h]) = Len(request[h].json.recipients)

\* C10's case: one request is complete with names for its first recipient
\* only, while another request in flight has bound user2.
C10_Witness ==
  \E h \in Handlers, g \in Handlers :
    /\ h # g
    /\ SendAccepted(h) /\ SendAccepted(g)
    /\ response[h].status = 200
    /\ Len(outbound[h]) = 2
    /\ Supplied(h) = [variable1 |-> <<"X">>]
    /\ Params(h, 2)[1] = << >>
    /\ pc[g] = "post"
    /\ Get(template_variables[g], UserKey(1), << >>) = <<"Q">>

====
